---- MODULE Spec2Model ----
(***************************************************************************)
(* Model of sense.py: the ColorCalc value-to-colour mapping, the views     *)
(* (FullScreenView, AxisView) and the EventHandler that cycles them.       *)
(*                                                                         *)
(* Numbers: sensor readings are floats in the source.  Here a reading is   *)
(* an integer number of ticks of 0.05, so that E = 0.1 is two ticks and    *)
(* readings closer than E but different exist.  Arithmetic is exact (the   *)
(* rounding error of binary floating point is not modelled); int() of a    *)
(* non-negative quotient is the integer division \div.                     *)
(***************************************************************************)
EXTENDS Integers, Sequences, FiniteSets, TLC

\* ---------------------------------------------------------------- bounds
MaxCalls == 3
MaxViews == 3
MaxBatch == 2

\* ------------------------------------------------------------- constants
\* E = 0.1, in ticks of 0.05
E == 2
\* 1.0 in ticks
One == 10 * E

Abs(x) == IF x < 0 THEN -x ELSE x
Min(a, b) == IF a < b THEN a ELSE b

MIN_TEMP == (-40) * One
MAX_TEMP == Abs(MIN_TEMP)
MIN_PRESSURE == 950 * One
MAX_PRESSURE == 1050 * One
MIN_HUMIDITY == 0 * One
MAX_HUMIDITY == 100 * One
MIN_DEGREE == 0 * One
MAX_DEGREE == 360 * One

WHITE == <<255, 255, 255>>
BLACK == <<0, 0, 0>>

\* Python's None, for an optional value <<v>> or an optional colour <<r,g,b>>
None == <<>>
Some(v) == <<v>>

\* ------------------------------------------------------------- ColorCalc
\* ColorCalc.__init__
ColorCalc(min_value, max_value, reverse) ==
  [min_value |-> min_value, levels |-> max_value - min_value,
   reverse |-> reverse, prev_value |-> None, color |-> None]

\* the short-circuit test of compute (lines 67-71)
StableBroken(self, value) == FALSE
Stable(self, value) ==
  /\ self.prev_value # None
  /\ self.color # None
  /\ Abs(self.prev_value[1] - value) < E

\* score as a numerator over self.levels (lines 76-78); min(1.0, a / levels)
\* is Min(levels, a) / levels for levels > 0
ScoreNumSigned(self, value) == Min(self.levels, value - self.min_value)
ScoreNumNoClamp(self, value) ==
  IF value > self.min_value THEN Abs(self.min_value - value) ELSE 0
ScoreNum(self, value) ==
  IF value > self.min_value
    THEN Min(self.levels, Abs(self.min_value - value))
    ELSE 0

\* score > 0.5
High(self, num) == 2 * num > self.levels

\* a / b rounded to the nearest integer, a tie to the even one (a >= 0, b > 0)
RoundDiv(a, b) ==
  LET q == a \div b
      r == a % b
  IN  IF 2 * r < b THEN q
      ELSE IF 2 * r > b THEN q + 1
      ELSE IF q % 2 = 0 THEN q ELSE q + 1

\* lines 80-81: 255 * (score * 2 - 1) or 255 * (1 - score * 2), then int()
SaturationLowRising(self, num) ==
  IF High(self, num)
    THEN (255 * (2 * num - self.levels)) \div self.levels
    ELSE (255 * (2 * num)) \div self.levels
SaturationRounded(self, num) ==
  IF High(self, num)
    THEN RoundDiv(255 * (2 * num - self.levels), self.levels)
    ELSE RoundDiv(255 * (self.levels - 2 * num), self.levels)
SaturationHighOnly(self, num) == (255 * (2 * num - self.levels)) \div self.levels
Saturation(self, num) ==
  IF High(self, num)
    THEN (255 * (2 * num - self.levels)) \div self.levels
    ELSE (255 * (self.levels - 2 * num)) \div self.levels

\* lines 83-95: the colour chosen for a score and a saturation
PickColorNoReverseLow(self, num, saturation) ==
  LET red == <<saturation, 0, 0>>
      blue == <<0, 0, saturation>>
  IN  IF High(self, num)
        THEN (IF ~self.reverse THEN red ELSE blue)
        ELSE blue
PickColor(self, num, saturation) ==
  LET red == <<saturation, 0, 0>>
      blue == <<0, 0, saturation>>
  IN  IF High(self, num)
        THEN (IF ~self.reverse THEN red ELSE blue)
        ELSE (IF ~self.reverse THEN blue ELSE red)

\* ColorCalc.compute: the calculator after the call, the colour returned, and
\* whether the colour was recomputed
compute_always_store(self, value) ==
  IF Stable(self, value)
    THEN [self |-> [self EXCEPT !.prev_value = Some(value)],
          ret |-> self.color, recomputed |-> FALSE]
    ELSE LET num == ScoreNum(self, value)
             color == PickColor(self, num, Saturation(self, num))
         IN  [self |-> [self EXCEPT !.prev_value = Some(value), !.color = color],
              ret |-> color, recomputed |-> TRUE]
compute(self, value) ==
  IF Stable(self, value)
    THEN [self |-> self, ret |-> self.color, recomputed |-> FALSE]
    ELSE LET num == ScoreNum(self, value)
             color == PickColor(self, num, Saturation(self, num))
         IN  [self |-> [self EXCEPT !.prev_value = Some(value), !.color = color],
              ret |-> color, recomputed |-> TRUE]

\* ColorCalc.__deepcopy__ with a fresh memo: a new instance built from
\* (min_value, levels), reverse left at its default
deepcopy(self) == ColorCalc(self.min_value, self.levels, FALSE)

\* ------------------------------------------------------- wiring (205-239)
degree_color_calc == ColorCalc(MIN_DEGREE, MAX_DEGREE, FALSE)

\* the objects the wiring can hand to register_view: two FullScreenViews
\* ("altitude" names a property the hat does not provide), two AxisViews,
\* and one object that is not a View
FullScreenViews == {"temperature", "altitude"}
AxisViews == {"gyro", "compass"}
ViewObjects == FullScreenViews \cup AxisViews
NonViews == {"object"}
Objects == ViewObjects \cup NonViews

\* the position of an object's register_view call in the wiring script
ScriptLine(o) ==
  CASE o = "temperature" -> 1
    [] o = "altitude" -> 2
    [] o = "gyro" -> 3
    [] o = "compass" -> 4
    [] OTHER -> 5

\* issubclass(type(view), View)
IsAnything(o) == TRUE
IsView(o) == o \in ViewObjects

\* AxisView.config (the keyword arguments of the constructor)
config(o) ==
  IF o = "gyro" THEN [k \in {"gyro"} |-> TRUE]
  ELSE [k \in {"compass"} |-> TRUE]

\* dict.get(key, default)
Get(d, key, default) == IF key \in DOMAIN d THEN d[key] ELSE default

Axes == {"roll", "pitch", "yaw"}
CalcIds ==
  {<<o, "color_calc">> : o \in FullScreenViews} \cup (AxisViews \X Axes)

InitCalc ==
  [id \in CalcIds |->
     IF id[1] = "temperature" THEN ColorCalc(MIN_TEMP, MAX_TEMP, FALSE)
     ELSE IF id[1] = "altitude" THEN ColorCalc(MIN_PRESSURE, MAX_PRESSURE, FALSE)
     ELSE deepcopy(degree_color_calc)]

\* ------------------------------------------------------ the hat's inputs
\* hat.temperature: 0, 0.05 and 40 degrees
Readings(property) == {0, 1, MAX_TEMP}

\* getattr(hat, property) raises AttributeError for a missing attribute;
\* an attribute that is None makes draw raise ValueError
NoFailures(property) == {}
Failures(property) ==
  IF property = "temperature" THEN {} ELSE {"AttributeError", "ValueError"}

\* hat.orientation: a dict in which any of roll, pitch, yaw may be absent
Orientations ==
  { [k \in {} |-> 0],
    [k \in Axes |-> IF k = "roll" THEN MAX_DEGREE
                    ELSE IF k = "pitch" THEN 180 * One ELSE 90 * One] }

\* joystick events
Actions == {"pressed", "released", "held"}
Directions == {"left", "right", "up", "down", "middle"}
Events == [action : Actions, direction : Directions]
NoEvent == [action |-> "none", direction |-> "none"]

\* ----------------------------------------------------------------- state
VARIABLES
  pc,            \* "wiring", "poll", "drain" (inside the for loop), "raised"
  views,         \* EventHandler.views
  current_idx,   \* EventHandler.current_idx, -1 for None
  current_view,  \* EventHandler.current_view, "None" for None
  pixels,        \* the LED matrix, by (x, y)
  imu,           \* the hat's fusion configuration
  calc,          \* the ColorCalc instances owned by the views
  events,        \* rest of the list get_events() returned: arrival numbers;
                 \* an event's action and direction are read when it is handled
  polled,        \* how many events the last get_events() returned
  handled,       \* arrival numbers handled since the last get_events()
  trace,         \* what the last step did
  cc, ccR,       \* a calculator and its reverse=True twin (calculator bench)
  calls          \* the calls made on cc and ccR

progvars == <<pc, views, current_idx, current_view, pixels, imu, calc,
              events, polled, handled, trace>>
benchvars == <<cc, ccR, calls>>
vars == <<pc, views, current_idx, current_view, pixels, imu, calc,
          events, polled, handled, trace, cc, ccR, calls>>

NoTrace(op) ==
  [op |-> op, event |-> NoEvent, view |-> "None", setups |-> <<>>,
   writes |-> {}, computed |-> {}, error |-> "none"]

\* ---------------------------------------------------------------- pixels
Coords == (0..7) \X (0..7)

\* set_pixel(hat, idx, color)
set_pixel(px, idx, color) ==
  LET x == idx % 8
      y == idx \div 8
  IN  [px EXCEPT ![<<x, y>>] = color]

\* the cell set_pixel addresses by idx
Cell(px, idx) == px[<<idx % 8, idx \div 8>>]

\* for idx in range(lo, hi): set_pixel(hat, idx, color)
RECURSIVE paint(_, _, _, _)
paint(px, lo, hi, color) ==
  IF lo >= hi THEN px ELSE paint(set_pixel(px, lo, color), lo + 1, hi, color)

\* ----------------------------------------------------------------- views
\* h is the object graph: [views, current_idx, current_view, pixels, imu,
\* calc] with the log of the running step [setups, writes, computed]

\* View.setup (no-op) and AxisView.setup
setupDefaultsOn(h, o) ==
  IF o \in AxisViews
    THEN [h EXCEPT !.imu = [compass |-> Get(config(o), "compass", TRUE),
                            gyro |-> Get(config(o), "gyro", TRUE),
                            accel |-> Get(config(o), "accel", TRUE)],
                   !.setups = Append(@, o)]
    ELSE [h EXCEPT !.setups = Append(@, o)]
setup(h, o) ==
  IF o \in AxisViews
    THEN [h EXCEPT !.imu = [compass |-> Get(config(o), "compass", FALSE),
                            gyro |-> Get(config(o), "gyro", FALSE),
                            accel |-> Get(config(o), "accel", FALSE)],
                   !.setups = Append(@, o)]
    ELSE [h EXCEPT !.setups = Append(@, o)]

ROW_WIDTH == 16

\* FullScreenView.draw with the value read from the hat
draw_full_whole_screen(h, o, value) ==
  LET id == <<o, "color_calc">>
      r == compute(h.calc[id], value)
  IN  [h EXCEPT !.calc[id] = r.self,
                !.pixels = paint(@, 0, 64, r.ret),
                !.writes = @ \cup (0..63),
                !.computed = @ \cup {id}]
draw_full(h, o, value) ==
  LET id == <<o, "color_calc">>
      r == compute(h.calc[id], value)
  IN  [h EXCEPT !.calc[id] = r.self,
                !.pixels = paint(@, 0, 48, r.ret),
                !.writes = @ \cup (0..47),
                !.computed = @ \cup {id}]

\* AxisView.draw with the orientation read from the hat
draw_axis_one_calc(h, o, orientation) ==
  LET roll == Get(orientation, "roll", 0)
      pitch == Get(orientation, "pitch", 0)
      yaw == Get(orientation, "yaw", 0)
      r == compute(h.calc[<<o, "roll">>], roll)
      p == compute(r.self, pitch)
      y == compute(p.self, yaw)
      px1 == paint(h.pixels, 0, ROW_WIDTH, r.ret)
      px2 == paint(px1, ROW_WIDTH, ROW_WIDTH * 2, p.ret)
      px3 == paint(px2, ROW_WIDTH * 2, ROW_WIDTH * 3, y.ret)
  IN  [h EXCEPT !.calc[<<o, "roll">>] = y.self,
                !.calc[<<o, "pitch">>] = y.self,
                !.calc[<<o, "yaw">>] = y.self,
                !.pixels = px3,
                !.writes = @ \cup (0..(ROW_WIDTH * 3 - 1)),
                !.computed = @ \cup {<<o, "roll">>, <<o, "pitch">>, <<o, "yaw">>}]
draw_axis(h, o, orientation) ==
  LET roll == Get(orientation, "roll", 0)
      pitch == Get(orientation, "pitch", 0)
      yaw == Get(orientation, "yaw", 0)
      r == compute(h.calc[<<o, "roll">>], roll)
      p == compute(h.calc[<<o, "pitch">>], pitch)
      y == compute(h.calc[<<o, "yaw">>], yaw)
      px1 == paint(h.pixels, 0, ROW_WIDTH, r.ret)
      px2 == paint(px1, ROW_WIDTH, ROW_WIDTH * 2, p.ret)
      px3 == paint(px2, ROW_WIDTH * 2, ROW_WIDTH * 3, y.ret)
  IN  [h EXCEPT !.calc[<<o, "roll">>] = r.self,
                !.calc[<<o, "pitch">>] = p.self,
                !.calc[<<o, "yaw">>] = y.self,
                !.pixels = px3,
                !.writes = @ \cup (0..(ROW_WIDTH * 3 - 1)),
                !.computed = @ \cup {<<o, "roll">>, <<o, "pitch">>, <<o, "yaw">>}]

\* ---------------------------------------------------------- EventHandler
\* EventHandler.__set_new_view
set_new_view_stale_view(h, new_idx) ==
  LET px1 == set_pixel(h.pixels, 48 + h.current_idx, BLACK)
      px2 == set_pixel(px1, 48 + new_idx, WHITE)
      h1 == [h EXCEPT !.pixels = px2,
                      !.writes = @ \cup {48 + h.current_idx, 48 + new_idx},
                      !.current_idx = new_idx,
                      !.current_view = h.views[h.current_idx + 1]]
  IN  setup(h1, h1.current_view)
set_new_view_on_then_off(h, new_idx) ==
  LET px1 == set_pixel(h.pixels, 48 + new_idx, WHITE)
      px2 == set_pixel(px1, 48 + h.current_idx, BLACK)
      h1 == [h EXCEPT !.pixels = px2,
                      !.writes = @ \cup {48 + h.current_idx, 48 + new_idx},
                      !.current_idx = new_idx,
                      !.current_view = h.views[new_idx + 1]]
  IN  setup(h1, h1.current_view)
set_new_view(h, new_idx) ==
  LET px1 == set_pixel(h.pixels, 48 + h.current_idx, BLACK)
      px2 == set_pixel(px1, 48 + new_idx, WHITE)
      h1 == [h EXCEPT !.pixels = px2,
                      !.writes = @ \cup {48 + h.current_idx, 48 + new_idx},
                      !.current_idx = new_idx,
                      !.current_view = h.views[new_idx + 1]]
  IN  setup(h1, h1.current_view)

\* { 'left': -1, 'right': +1 }.get(event.direction, 0)
Delta(direction) ==
  IF direction = "left" THEN -1 ELSE IF direction = "right" THEN 1 ELSE 0

\* lines 186-190: the index wrapped into 0..max_idx
wrapSticks(new_idx, max_idx) ==
  IF new_idx > max_idx THEN max_idx
  ELSE IF new_idx < 0 THEN 0
  ELSE new_idx
wrap(new_idx, max_idx) ==
  IF new_idx > max_idx THEN 0
  ELSE IF new_idx < 0 THEN max_idx
  ELSE new_idx

\* EventHandler.__handle_event
handle_event_any_action(h, event) ==
  LET new_idx == h.current_idx + Delta(event.direction)
  IN  IF new_idx # h.current_idx
        THEN set_new_view(h, wrap(new_idx, Len(h.views) - 1))
        ELSE h
handle_event(h, event) ==
  IF event.action = "pressed"
    THEN LET new_idx == h.current_idx + Delta(event.direction)
         IN  IF new_idx # h.current_idx
               THEN set_new_view(h, wrap(new_idx, Len(h.views) - 1))
               ELSE h
    ELSE h

\* the object graph of the current state, with an empty log
Graph ==
  [views |-> views, current_idx |-> current_idx, current_view |-> current_view,
   pixels |-> pixels, imu |-> imu, calc |-> calc,
   setups |-> <<>>, writes |-> {}, computed |-> {}]

\* the state after a step that ends with object graph h
Becomes(h, op, event, view) ==
  /\ views' = h.views
  /\ current_idx' = h.current_idx
  /\ current_view' = h.current_view
  /\ pixels' = h.pixels
  /\ imu' = h.imu
  /\ calc' = h.calc
  /\ trace' = [op |-> op, event |-> event, view |-> view, setups |-> h.setups,
               writes |-> h.writes, computed |-> h.computed, error |-> "none"]

\* the step raises: the exception leaves the program
Raises(op, view, error) ==
  /\ pc' = "raised"
  /\ trace' = [NoTrace(op) EXCEPT !.view = view, !.error = error]

\* ------------------------------------------------------------------ Init
ProgInit ==
  /\ pc = "wiring"
  /\ views = <<>>
  /\ current_idx = -1
  /\ current_view = "None"
  /\ pixels = [p \in Coords |-> BLACK]
  /\ imu \in {[compass |-> b, gyro |-> b, accel |-> b] : b \in BOOLEAN}
  /\ calc = InitCalc
  /\ events = <<>>
  /\ polled = 0
  /\ handled = <<>>
  /\ trace = NoTrace("init")

BenchIdle ==
  /\ cc = ColorCalc(MIN_TEMP, MAX_TEMP, FALSE)
  /\ ccR = ColorCalc(MIN_TEMP, MAX_TEMP, TRUE)
  /\ calls = <<>>

Init == ProgInit /\ BenchIdle

\* --------------------------------------------------------------- actions
\* EventHandler.register_view; the wiring registers objects in the order of
\* its script, each at most once, and may leave any of them out
register_view(view) ==
  /\ pc = "wiring"
  /\ Len(views) < MaxViews
  /\ \A i \in 1..Len(views) : ScriptLine(views[i]) < ScriptLine(view)
  /\ IF ~IsView(view)
       THEN /\ Raises("register_view", view, "TypeError")
            /\ UNCHANGED <<views, current_idx, current_view, pixels, imu, calc,
                           events, polled, handled>>
       ELSE /\ Becomes([Graph EXCEPT !.views = Append(@, view)],
                       "register_view", NoEvent, view)
            /\ UNCHANGED <<pc, events, polled, handled>>
  /\ UNCHANGED benchvars

\* event_loop, lines 171-172; with no view registered views[0] raises after
\* the two status pixels are written
event_loop_start ==
  /\ pc = "wiring"
  /\ IF views = <<>>
       THEN /\ pixels' = set_pixel(set_pixel(pixels, 48, BLACK), 48, WHITE)
            /\ current_idx' = 0
            /\ Raises("event_loop", "None", "IndexError")
            /\ UNCHANGED <<views, current_view, imu, calc>>
       ELSE /\ Becomes(set_new_view([Graph EXCEPT !.current_idx = 0], 0),
                       "event_loop", NoEvent, "None")
            /\ pc' = "poll"
  /\ UNCHANGED <<events, polled, handled>>
  /\ UNCHANGED benchvars

\* self.hat.stick.get_events(): the events pending now, in arrival order
get_events ==
  /\ pc = "poll"
  /\ \E n \in 0..MaxBatch :
       /\ events' = [i \in 1..n |-> i]
       /\ polled' = n
  /\ handled' = <<>>
  /\ pc' = "drain"
  /\ trace' = NoTrace("get_events")
  /\ UNCHANGED <<views, current_idx, current_view, pixels, imu, calc>>
  /\ UNCHANGED benchvars

\* the event the for loop takes next, and the events left after it
NextEventFromEnd(evs) == evs[Len(evs)]
NextEvent(evs) == Head(evs)
Rest(evs) == Tail(evs)

\* one pass of the for loop: self.__handle_event(event)
handle_next_event ==
  /\ pc = "drain"
  /\ events # <<>>
  /\ \E event \in Events :
       Becomes(handle_event(Graph, event), "handle_event", event, "None")
  /\ handled' = Append(handled, NextEvent(events))
  /\ events' = Rest(events)
  /\ UNCHANGED <<pc, polled>>
  /\ UNCHANGED benchvars

\* self.current_view.draw(self.hat), once the for loop is done
draw ==
  /\ pc = "drain"
  /\ events = <<>>
  /\ IF current_view \in FullScreenViews
       THEN \/ \E value \in Readings(current_view) :
                 /\ Failures(current_view) = {}
                 /\ Becomes(draw_full(Graph, current_view, value),
                            "draw", NoEvent, current_view)
                 /\ pc' = "poll"
            \/ \E error \in Failures(current_view) :
                 /\ Raises("draw", current_view, error)
                 /\ UNCHANGED <<views, current_idx, current_view, pixels,
                                imu, calc>>
       ELSE \E orientation \in Orientations :
              /\ Becomes(draw_axis(Graph, current_view, orientation),
                         "draw", NoEvent, current_view)
              /\ pc' = "poll"
  /\ UNCHANGED <<events, polled, handled>>
  /\ UNCHANGED benchvars

Next ==
  \/ \E view \in Objects : register_view(view)
  \/ event_loop_start
  \/ get_events
  \/ handle_next_event
  \/ draw

Spec == Init /\ [][Next]_vars

\* ------------------------------------------------------ calculator bench
\* compute as a function of its call history: a calculator cc and its twin
\* ccR (same range, reverse=True) are built from one of the program's ranges
\* and fed the same values

Ranges ==
  { <<MIN_TEMP, MAX_TEMP>>, <<MIN_PRESSURE, MAX_PRESSURE>>,
    <<MIN_HUMIDITY, MAX_HUMIDITY>>, <<MIN_DEGREE, MAX_DEGREE>> }

min_value_of(self) == self.min_value
max_value_of(self) == self.min_value + self.levels

\* values around the ends and the middle of the range, some closer than E
Inputs(self) ==
  LET lo == min_value_of(self)
      hi == max_value_of(self)
      mid == (lo + hi) \div 2
  IN  {lo - One, lo, lo + 1, lo + 2, lo + 3, mid, mid + 1, hi - 1, hi, hi + One}

BenchInit ==
  /\ ProgInit
  /\ \E r \in Ranges :
       /\ cc = ColorCalc(r[1], r[2], FALSE)
       /\ ccR = ColorCalc(r[1], r[2], TRUE)
  /\ calls = <<>>

\* one compute(value) on each calculator
compute_call ==
  /\ Len(calls) < MaxCalls
  /\ \E value \in Inputs(cc) :
       LET r == compute(cc, value)
           rR == compute(ccR, value)
       IN  /\ cc' = r.self
           /\ ccR' = rR.self
           /\ calls' = Append(calls, [value |-> value, ret |-> r.ret,
                                      retR |-> rR.ret,
                                      recomputed |-> r.recomputed,
                                      stored |-> r.self.prev_value])
  /\ UNCHANGED progvars

BenchNext == compute_call

CalcSpec == BenchInit /\ [][BenchNext]_vars

\* ================================================================ claims
\* a fresh calculator with the parameters of self
Fresh(self) == [self EXCEPT !.prev_value = None, !.color = None]

\* the colour with its red and blue channels exchanged
SwapRedBlue(color) == <<color[3], color[2], color[1]>>

\* ------------------------------------------------- the loop, for C1..C6
\* the event loop is running (or a draw has raised out of it)
LoopStarted ==
  pc \in {"poll", "drain"} \/ (pc = "raised" /\ trace.op = "draw")

Pressed(direction) == [action |-> "pressed", direction |-> direction]

\* the transition rule of the specification: the index after an event
RuleIdx(i, event, n) ==
  IF event = Pressed("right") THEN (i + 1) % n
  ELSE IF event = Pressed("left") THEN (i - 1) % n
  ELSE i

\* n times the same event
RECURSIVE Repeat(_, _, _)
Repeat(h, event, n) ==
  IF n = 0 THEN h ELSE Repeat(handle_event(h, event), event, n - 1)

\* the object graph with view i active
Active(i) == [Graph EXCEPT !.current_idx = i, !.current_view = views[i + 1]]

\* ---------------------------------------------------------------- C1
C1_Step ==
  (pc = "drain" /\ events # <<>>) =>
    /\ trace'.event = Pressed("right")
         => current_idx' = (current_idx + 1) % Len(views)
    /\ trace'.event = Pressed("left")
         => current_idx' = (current_idx - 1) % Len(views)

C1_RoundTrip ==
  pc \in {"poll", "drain"} =>
    \A i \in 0..(Len(views) - 1) :
      /\ Repeat(Active(i), Pressed("right"), Len(views)).current_idx = i
      /\ Repeat(Active(i), Pressed("left"), Len(views)).current_idx = i
      /\ handle_event(handle_event(Active(i), Pressed("left")),
                      Pressed("right")).current_idx = i
      /\ handle_event(handle_event(Active(i), Pressed("right")),
                      Pressed("left")).current_idx = i

\* C1: with N views a pressed-right moves the index i to (i + 1) mod N and a
\* pressed-left to (i - 1) mod N; from every index N pressed-right events
\* return to it, and left-then-right and right-then-left leave it unchanged.
C1_Cycling == [][C1_Step]_vars /\ []C1_RoundTrip

\* a pressed-left has wrapped from index 0 to index 2 of three views
C1_Witness ==
  /\ pc = "drain"
  /\ Len(views) = 3
  /\ trace.op = "handle_event"
  /\ trace.event = Pressed("left")
  /\ trace.writes = {48, 50}
  /\ current_idx = 2

\* ---------------------------------------------------------------- C2
\* C2: once event_loop has started, current_idx is in 0..N-1 and
\* current_view is views[current_idx].
C2_IndexValid ==
  LoopStarted =>
    /\ current_idx \in 0..(Len(views) - 1)
    /\ current_view = views[current_idx + 1]

\* an event has switched to the second view of at least two
C2_Witness ==
  /\ pc = "drain"
  /\ trace.op = "handle_event"
  /\ trace.setups # <<>>
  /\ Len(views) >= 2
  /\ current_idx = 1
  /\ current_view = views[2]

\* ---------------------------------------------------------------- C3
\* C3: from a cleared display, after the initial activation and after every
\* handled event (and every draw) status cell 48 + current_idx is WHITE and
\* every other cell of 48..63 is BLACK.
C3_OneIndicator ==
  LoopStarted =>
    \A c \in 48..63 :
      Cell(pixels, c) = IF c = 48 + current_idx THEN WHITE ELSE BLACK

\* three views, a pressed-right has wrapped from index 2 to index 0: cell 50
\* is BLACK and cell 48 WHITE
C3_Witness ==
  /\ pc = "drain"
  /\ Len(views) = 3
  /\ trace.op = "handle_event"
  /\ trace.event = Pressed("right")
  /\ trace.writes = {48, 50}
  /\ current_idx = 0
  /\ Cell(pixels, 50) = BLACK
  /\ Cell(pixels, 48) = WHITE

\* ---------------------------------------------------------------- C4
Navigates(event) ==
  event.action = "pressed" /\ event.direction \in {"left", "right"}

C4_Step ==
  (pc = "drain" /\ events # <<>> /\ ~Navigates(trace'.event)) =>
    /\ UNCHANGED <<views, current_idx, current_view, pixels, imu, calc>>
    /\ trace'.setups = <<>>
    /\ trace'.writes = {}

\* C4: an event whose action is not pressed, or whose direction is not left
\* or right, changes neither current_idx, current_view nor any display cell,
\* and invokes no setup.
C4_OtherEventsAreNoOps == [][C4_Step]_vars

\* a released-left has been handled with more than one view registered
C4_Witness ==
  /\ pc = "drain"
  /\ trace.op = "handle_event"
  /\ trace.event = [action |-> "released", direction |-> "left"]
  /\ Len(views) >= 2
  /\ trace.setups = <<>>

\* ---------------------------------------------------------------- C5
C5_Step ==
  /\ pc = "poll" =>
       /\ trace'.op = "get_events"
       /\ pc' = "drain"
       /\ events' = [i \in 1..polled' |-> i]
       /\ handled' = <<>>
  /\ (pc = "drain" /\ events # <<>>) =>
       /\ trace'.op = "handle_event"
       /\ pc' = "drain"
       /\ handled' = Append(handled, Head(events))
       /\ events' = Tail(events)
       /\ polled' = polled
       /\ current_idx' = RuleIdx(current_idx, trace'.event, Len(views))
  /\ (pc = "drain" /\ events = <<>>) =>
       /\ trace'.op = "draw"
       /\ trace'.view = current_view
       /\ handled = [i \in 1..polled |-> i]
       /\ pc' \in {"poll", "raised"}
       /\ UNCHANGED <<current_idx, current_view>>
  /\ trace'.op = "draw" => (pc = "drain" /\ events = <<>>)

\* C5: in every iteration the events returned by the poll are handled in
\* arrival order, each by the transition rule; the step that follows the last
\* of them (or the poll itself, when it returned no event) is one draw of the
\* active view, and the step after a draw is the next poll.
C5_DrainThenDrawOnce == [][C5_Step]_vars

\* a draw after a poll that returned two events, both handled in order
C5_Witness ==
  /\ trace.op = "draw"
  /\ pc = "poll"
  /\ polled = 2
  /\ handled = <<1, 2>>
  /\ trace.view = current_view

\* ---------------------------------------------------------------- C6
\* the activation configuration of an AxisView, unlisted subsystems disabled
C6_Expected(o) ==
  [compass |-> (o = "compass"), gyro |-> (o = "gyro"), accel |-> FALSE]

\* C6: a step that activates a view invokes its setup, and whenever an
\* AxisView is about to draw or has drawn, the fusion configuration is that
\* view's own (gyro-only: gyroscope on, compass and accelerometer off).
C6_SetupBeforeDraw ==
  /\ (trace.op \in {"handle_event", "event_loop"} /\ trace.writes # {})
       => trace.setups = <<current_view>>
  /\ ( /\ (pc = "drain" /\ events = <<>>) \/ trace.op = "draw"
       /\ current_view \in AxisViews )
       => imu = C6_Expected(current_view)

\* gyro is about to draw after a drain of two events that both switched
\* views: the last draw was an AxisView's (three bands), so the drain began
\* at index 1 or 2, and its last event came from index 0
C6_Witness ==
  /\ views = <<"temperature", "gyro", "compass">>
  /\ pc = "drain"
  /\ events = <<>>
  /\ handled = <<1, 2>>
  /\ trace.event = Pressed("right")
  /\ current_view = "gyro"
  /\ Cell(pixels, 0) # Cell(pixels, 16)
  /\ imu = [compass |-> FALSE, gyro |-> TRUE, accel |-> FALSE]

\* ---------------------------------------------------------------- C7
\* C7 as stated: whenever two values closer than E are fed one after the
\* other, at any point of the call history, the second call returns the
\* colour the first call returned.
C7_AnyConsecutivePair ==
  \A i \in 1..(Len(calls) - 1) :
    Abs(calls[i].value - calls[i + 1].value) < E
      => calls[i + 1].ret = calls[i].ret

\* C7 amended: whenever two values closer than E are fed one after the other
\* and the first call left its value as the stored previous value (it
\* recomputed, or its value equals the stored one), the second call returns
\* the colour the first call returned.
C7_PairAfterStore ==
  \A i \in 1..(Len(calls) - 1) :
    ( /\ Abs(calls[i].value - calls[i + 1].value) < E
      /\ calls[i].stored = Some(calls[i].value) )
      => /\ calls[i + 1].ret = calls[i].ret
         /\ calls[i + 1].retR = calls[i].retR

\* a recomputing call followed by a different value closer than E, whose
\* own colour would differ from the cached one that was returned
C7_Witness ==
  \E i \in 1..(Len(calls) - 1) :
    /\ calls[i].recomputed
    /\ calls[i + 1].value # calls[i].value
    /\ Abs(calls[i].value - calls[i + 1].value) < E
    /\ ~calls[i + 1].recomputed
    /\ compute(Fresh(cc), calls[i + 1].value).ret # calls[i + 1].ret

\* ---------------------------------------------------------------- C8
\* C8: the first call on a calculator returns saturation 255 on the high
\* side for a value at or above max_value ((255,0,0), reversed (0,0,255)) and
\* saturation 255 on the low side for a value at or below min_value
\* ((0,0,255), reversed (255,0,0)).
C8_FullSaturationAtEnds ==
  Len(calls) >= 1 =>
    LET c == calls[1]
    IN  /\ c.value >= max_value_of(cc)
             => c.ret = <<255, 0, 0>> /\ c.retR = <<0, 0, 255>>
        /\ c.value <= min_value_of(cc)
             => c.ret = <<0, 0, 255>> /\ c.retR = <<255, 0, 0>>

\* a first call strictly above max_value
C8_Witness ==
  /\ Len(calls) = 1
  /\ calls[1].value > max_value_of(cc)
  /\ calls[1].ret = <<255, 0, 0>>

\* ---------------------------------------------------------------- C9
C9_Scenario ==
  /\ min_value_of(cc) = (-40) * One
  /\ max_value_of(cc) = 40 * One
  /\ Len(calls) = 3
  /\ calls[1].value = (-40) * One
  /\ calls[2].value = 40 * One
  /\ calls[3].value = 0

\* C9 as stated: ColorCalc(-40, 40): compute(-40), compute(40), compute(0)
\* return (0,0,0), (255,0,0), (0,0,0).
C9_AsStated ==
  C9_Scenario =>
    /\ calls[1].ret = <<0, 0, 0>>
    /\ calls[2].ret = <<255, 0, 0>>
    /\ calls[3].ret = <<0, 0, 0>>

\* C9 amended: ColorCalc(-40, 40): compute(-40), compute(40), compute(0)
\* return (0,0,255), (255,0,0), (0,0,0).
C9_Amended ==
  C9_Scenario =>
    /\ calls[1].ret = <<0, 0, 255>>
    /\ calls[2].ret = <<255, 0, 0>>
    /\ calls[3].ret = <<0, 0, 0>>

\* the three calls of the scenario have been made and each recomputed
C9_Witness ==
  /\ C9_Scenario
  /\ \A i \in 1..3 : calls[i].recomputed

\* --------------------------------------------------------------- C10
\* C10: fed the same values, the reverse=True calculator returns at every
\* call (the first, on fresh calculators, included) the colour of the
\* reverse=False calculator with red and blue exchanged.
C10_ReversalSwapsChannels ==
  \A i \in 1..Len(calls) : calls[i].retR = SwapRedBlue(calls[i].ret)

\* a history with a red and a blue result of non-zero saturation and a call
\* that returned the cached colour
C10_Witness ==
  /\ \E i \in 1..Len(calls) : calls[i].ret[1] > 0 /\ calls[i].retR[3] > 0
  /\ \E i \in 1..Len(calls) : calls[i].ret[3] > 0 /\ calls[i].retR[1] > 0
  /\ \E i \in 1..Len(calls) : ~calls[i].recomputed

\* --------------------------------------------------------------- C11
\* a draw that returned: the step from the end of the for loop to the poll
DrawStep == pc = "drain" /\ events = <<>> /\ pc' = "poll"

C11_Step ==
  DrawStep =>
    /\ trace'.writes = 0..47
    /\ \A c \in 48..63 : Cell(pixels', c) = Cell(pixels, c)
    /\ current_view \in FullScreenViews =>
         \A c \in 0..47 :
           Cell(pixels', c) = calc'[<<current_view, "color_calc">>].color
    /\ current_view \in AxisViews =>
         /\ \A c \in 0..15 :
              Cell(pixels', c) = calc'[<<current_view, "roll">>].color
         /\ \A c \in 16..31 :
              Cell(pixels', c) = calc'[<<current_view, "pitch">>].color
         /\ \A c \in 32..47 :
              Cell(pixels', c) = calc'[<<current_view, "yaw">>].color

\* C11: a draw writes exactly the cells 0..47: a FullScreenView paints its
\* one colour to all of them, an AxisView the roll colour to 0..15, the pitch
\* colour to 16..31 and the yaw colour to 32..47; no cell of 48..63 changes.
C11_DrawsKeepStatusRegion == [][C11_Step]_vars

\* an AxisView has drawn three different bands and the indicator is lit
C11_Witness ==
  /\ trace.op = "draw"
  /\ trace.view \in AxisViews
  /\ Cell(pixels, 0) # Cell(pixels, 16)
  /\ Cell(pixels, 16) # Cell(pixels, 32)
  /\ Cell(pixels, 0) # Cell(pixels, 32)
  /\ Cell(pixels, 48 + current_idx) = WHITE

\* --------------------------------------------------------------- C12
C12_Step ==
  /\ (pc = "drain" /\ events = <<>> /\ current_view = "altitude") =>
       /\ trace'.op = "draw"
       /\ trace'.error \in {"AttributeError", "ValueError"}
       /\ pc' = "raised"
       /\ trace'.writes = {}
       /\ trace'.computed = {}
       /\ UNCHANGED <<pixels, calc, current_idx, current_view>>
  /\ pc # "raised"

\* C12: the draw of a FullScreenView whose property the hat does not provide
\* raises before any cell is written and before its calculator changes, and
\* nothing follows the raise: no poll, no event handling, no draw.
C12_UnknownPropertyIsFatal == [][C12_Step]_vars

\* the draw of altitude has raised after another view had painted the screen
C12_Witness ==
  /\ pc = "raised"
  /\ trace.op = "draw"
  /\ trace.view = "altitude"
  /\ current_view = "altitude"
  /\ Cell(pixels, 0) = <<255, 0, 0>>
  /\ calc[<<"altitude", "color_calc">>].prev_value = None

\* --------------------------------------------------------------- C13
C13_Step ==
  /\ (pc = "wiring" /\ trace'.op = "register_view") =>
       IF trace'.view \in NonViews
         THEN /\ views' = views
              /\ pc' = "raised"
              /\ trace'.error = "TypeError"
         ELSE /\ views' = Append(views, trace'.view)
              /\ pc' = "wiring"
              /\ trace'.error = "none"
  /\ (pc = "wiring" /\ trace'.op = "event_loop" /\ views # <<>>) =>
       /\ views' = views
       /\ current_idx' = 0
       /\ current_view' = views[1]
  /\ pc # "wiring" => views' = views

\* C13: register_view of an object that is not a View raises at registration
\* and leaves views unchanged; register_view of a View appends it; the loop
\* starts with the first registered view and never changes views.
C13_Registration == [][C13_Step]_vars

\* the TypeError has been raised with two views already registered
C13_Witness ==
  /\ pc = "raised"
  /\ trace.op = "register_view"
  /\ trace.view = "object"
  /\ trace.error = "TypeError"
  /\ Len(views) = 2

\* --------------------------------------------------------------- C14
C14_Step ==
  ( /\ pc = "drain"
    /\ events # <<>>
    /\ RuleIdx(current_idx, trace'.event, Len(views)) = current_idx ) =>
    /\ trace'.writes = {}
    /\ trace'.setups = <<>>
    /\ UNCHANGED <<current_idx, current_view, pixels, imu>>

\* C14: an event whose new index equals the current index, a pressed-left or
\* pressed-right with one view included, writes no display cell and invokes
\* no setup.
C14_SelfWrapIsNoOp == [][C14_Step]_vars

\* --------------------------------------------------------------- C15
\* the saturation of a colour of the red-blue ramp
Sat(color) == color[1] + color[3]

\* the score of the specification as a numerator over the range width
SpecScoreNum(self, value) ==
  IF value <= min_value_of(self)
    THEN 0
    ELSE Min(self.levels, value - min_value_of(self))

\* C15 as stated: on a recomputation the saturation is 255 * (2*score - 1)
\* for score > 0.5 and 255 * (1 - 2*score) otherwise, rounded to the nearest
\* integer.
C15_RoundedToNearest ==
  \A i \in 1..Len(calls) :
    calls[i].recomputed =>
      LET num == SpecScoreNum(cc, calls[i].value)
      IN  Sat(calls[i].ret) =
            IF 2 * num > cc.levels
              THEN RoundDiv(255 * (2 * num - cc.levels), cc.levels)
              ELSE RoundDiv(255 * (cc.levels - 2 * num), cc.levels)

\* C15 amended: on a recomputation the saturation is 255 * (2*score - 1) for
\* score > 0.5 and 255 * (1 - 2*score) otherwise, truncated to an integer
\* (int(), the fraction dropped).
C15_Truncated ==
  \A i \in 1..Len(calls) :
    calls[i].recomputed =>
      LET num == SpecScoreNum(cc, calls[i].value)
      IN  /\ Sat(calls[i].ret) =
               IF 2 * num > cc.levels
                 THEN (255 * (2 * num - cc.levels)) \div cc.levels
                 ELSE (255 * (cc.levels - 2 * num)) \div cc.levels
          /\ Sat(calls[i].retR) = Sat(calls[i].ret)

\* a recomputation on each side of the midpoint whose exact saturation has a
\* fraction above one half: rounding would give one more
C15_Witness ==
  /\ \E i \in 1..Len(calls) :
       LET num == SpecScoreNum(cc, calls[i].value)
       IN  /\ calls[i].recomputed
           /\ 2 * num < cc.levels
           /\ 2 * ((255 * (cc.levels - 2 * num)) % cc.levels) > cc.levels
  /\ \E i \in 1..Len(calls) :
       LET num == SpecScoreNum(cc, calls[i].value)
       IN  /\ calls[i].recomputed
           /\ 2 * num > cc.levels
           /\ 2 * ((255 * (2 * num - cc.levels)) % cc.levels) > cc.levels

\* --------------------------------------------------------------- C16
\* value is strictly inside (min_value, max_value)
Inside(self, value) ==
  min_value_of(self) < value /\ value < max_value_of(self)

\* abs(score - 0.5), times twice the range width
Dist(self, value) == Abs(2 * (value - min_value_of(self)) - self.levels)

\* both values at or below the midpoint, or both at or above it
SameSide(self, v, w) ==
  LET a == 2 * (v - min_value_of(self)) - self.levels
      b == 2 * (w - min_value_of(self)) - self.levels
  IN  (a <= 0 /\ b <= 0) \/ (a >= 0 /\ b >= 0)

\* two recomputations (compute as on a fresh calculator) of readings strictly
\* inside the range, on the same side, the second farther from the midpoint
Farther(i, j) ==
  /\ calls[i].recomputed /\ calls[j].recomputed
  /\ Inside(cc, calls[i].value) /\ Inside(cc, calls[j].value)
  /\ SameSide(cc, calls[i].value, calls[j].value)
  /\ Dist(cc, calls[j].value) > Dist(cc, calls[i].value)

\* C16 as stated: of two readings strictly inside the range and on the same
\* side of the midpoint, the one farther from the midpoint yields a strictly
\* larger saturation.
C16_StrictlyMonotonic ==
  \A i, j \in 1..Len(calls) :
    Farther(i, j) => Sat(calls[j].ret) > Sat(calls[i].ret)

\* C16 amended: of two such readings the one farther from the midpoint yields
\* a saturation that is at least as large.
C16_Monotonic ==
  \A i, j \in 1..Len(calls) :
    Farther(i, j) =>
      /\ Sat(calls[j].ret) >= Sat(calls[i].ret)
      /\ Sat(calls[j].retR) >= Sat(calls[i].retR)

\* a farther reading with a larger saturation and a farther reading with the
\* same saturation, in one history
C16_Witness ==
  /\ \E i, j \in 1..Len(calls) :
       Farther(i, j) /\ Sat(calls[j].ret) > Sat(calls[i].ret)
  /\ \E i, j \in 1..Len(calls) :
       Farther(i, j) /\ Sat(calls[j].ret) = Sat(calls[i].ret)

\* --------------------------------------------------------------- C17
\* a triple of integers 0..255 with green 0
Rgb8NoGreen(color) ==
  /\ Len(color) = 3
  /\ \A k \in 1..3 : color[k] \in 0..255
  /\ color[2] = 0

NonZeroChannels(color) == Cardinality({k \in 1..3 : color[k] # 0})

\* C17 as stated: every colour compute returns is a triple of integers in
\* 0..255 with green 0 and exactly one non-zero channel.
C17_ExactlyOneChannel ==
  \A i \in 1..Len(calls) :
    /\ Rgb8NoGreen(calls[i].ret) /\ NonZeroChannels(calls[i].ret) = 1
    /\ Rgb8NoGreen(calls[i].retR) /\ NonZeroChannels(calls[i].retR) = 1

\* C17 amended: every colour compute returns is a triple of integers in
\* 0..255 with green 0 and at most one non-zero channel (red or blue).
C17_AtMostOneChannel ==
  \A i \in 1..Len(calls) :
    /\ Rgb8NoGreen(calls[i].ret) /\ NonZeroChannels(calls[i].ret) <= 1
    /\ Rgb8NoGreen(calls[i].retR) /\ NonZeroChannels(calls[i].retR) <= 1

\* a history with a value below min_value, a value above max_value and the
\* midpoint, whose colour is (0,0,0)
C17_Witness ==
  /\ \E i \in 1..Len(calls) : calls[i].value < min_value_of(cc)
  /\ \E i \in 1..Len(calls) : calls[i].value > max_value_of(cc)
  /\ \E i \in 1..Len(calls) : calls[i].ret = <<0, 0, 0>>

\* --------------------------------------------------------------- C18
\* the readings the calculator id can be fed
C18_Values(id) ==
  IF id[2] = "color_calc"
    THEN Readings(id[1])
    ELSE {Get(o, id[2], 0) : o \in Orientations}

C18_Step ==
  \A id \in CalcIds :
    /\ calc'[id] # calc[id] =>
         /\ DrawStep
         /\ id[1] = current_view
         /\ id \in trace'.computed
         /\ calc'[id].prev_value # calc[id].prev_value
         /\ calc[id].prev_value # None =>
              Abs(calc'[id].prev_value[1] - calc[id].prev_value[1]) >= E
    /\ (DrawStep /\ id[1] = current_view) =>
         \E v \in C18_Values(id) : calc'[id] = compute(calc[id], v).self

\* C18: a calculator changes only in a draw of the view that owns it, and
\* then as its own compute of one reading of its own sensor or axis changes
\* it: no event, switch, draw of another view or compute of another axis
\* changes it, and a compute closer than E to the stored value leaves the
\* stored value and colour as they were.
C18_CalculatorsAreIndependent == [][C18_Step]_vars

\* gyro has drawn three different colours; temperature keeps what its own
\* draw stored, and the calculators of compass are still empty
C18_Witness ==
  /\ trace.op = "draw"
  /\ trace.view = "gyro"
  /\ calc[<<"gyro", "roll">>].color # calc[<<"gyro", "pitch">>].color
  /\ calc[<<"gyro", "pitch">>].color # calc[<<"gyro", "yaw">>].color
  /\ calc[<<"temperature", "color_calc">>].prev_value = Some(MAX_TEMP)
  /\ "compass" \in {views[i] : i \in 1..Len(views)}
  /\ \A a \in Axes : calc[<<"compass", a>>].prev_value = None

\* --------------------------------------------------------------- C19
C19_CopyMapsAs(self) ==
  LET copy == deepcopy(self)
  IN  /\ copy.prev_value = None
      /\ copy.color = None
      /\ copy.min_value = self.min_value
      /\ copy.levels = self.levels
      /\ copy.reverse = self.reverse
      /\ \A value \in Inputs(self) :
           compute(copy, value).ret = compute(Fresh(self), value).ret

\* C19: the deep copy of a calculator, whatever its parameters and whatever
\* it has stored, has empty state, the original's min_value, range width and
\* reverse flag, and maps every value as a fresh calculator built from the
\* original's parameters does.
C19_DeepCopyKeepsParameters == C19_CopyMapsAs(cc) /\ C19_CopyMapsAs(ccR)

\* --------------------------------------------------------------- C20
C20_Tracks(self, value, ret) ==
  /\ self.prev_value # None
  /\ ret = compute(Fresh(self), self.prev_value[1]).ret
  /\ ret = self.color
  /\ Abs(self.prev_value[1] - value) < E

\* C20: after any calls of compute on one calculator, the colour the latest
\* call returned is the colour a fresh calculator with the same parameters
\* computes for the stored previous value, and the stored previous value is
\* closer than E to the latest input.
C20_ColorTracksReading ==
  Len(calls) >= 1 =>
    LET last == calls[Len(calls)]
    IN  /\ C20_Tracks(cc, last.value, last.ret)
        /\ C20_Tracks(ccR, last.value, last.retR)

\* three calls, the last two short-circuited on values that differ from the
\* stored one and from each other
C20_Witness ==
  /\ Len(calls) = 3
  /\ calls[1].recomputed
  /\ ~calls[2].recomputed
  /\ ~calls[3].recomputed
  /\ calls[2].value # calls[1].value
  /\ calls[3].value # calls[2].value
  /\ calls[3].value # calls[1].value
  /\ cc.prev_value = Some(calls[1].value)

====
